---- MODULE Spec2Model ----
(***************************************************************************)
(* Model of src/app.py: the restaurant recommendation pipeline.            *)
(*                                                                         *)
(* Text returned by the language model is a sequence of lexical tokens.    *)
(* A token is a bracket, a comma, a whole flat JSON object, a JSON string  *)
(* scalar or a run of prose; brackets occur only as the tokens "[" and     *)
(* "]".  Whitespace is not a token (json.loads and str.strip ignore it).   *)
(* JSON values are tagged records: Str, Null, List, Obj.                   *)
(* Japanese literals of the source are transliterated to ASCII:            *)
(*   "サンプル食堂" -> "Sample Shokudo", "不明" -> "unknown",               *)
(*   " サンプル町1-2-3" -> " Sample-cho 1-2-3", "円以下" -> " yen or less", *)
(*   "内定者バイトランチ" -> "lunch", "内定者バイト飲み" -> "drinks".        *)
(***************************************************************************)
EXTENDS Integers, Sequences, FiniteSets, TLC

VARIABLES
  pc,               \* where the request is: idle, l1_model, l2_listings, l2_model, done
  op,               \* the public operation running: none, level1, level2
  request,          \* the arguments of the operation
  ceiling,          \* the per-person amount main shows for the outing genre
  params,           \* the query parameters sent to the listings service
  calls,            \* the external calls issued by the request, in order
  listings,         \* how the listings call ended
  shops,            \* the shops read from the listings body
  model,            \* how the model call ended: none, raised, returned
  message_content,  \* the content of the model's answer
  first_pass,       \* level 1: the records of the pass on the unrepaired text
  trace,            \* level 1: the strategies that pass ran
  passes,           \* level 1: the number of safe_parse_json passes
  selected,         \* level 2: what select_top_restaurants returned
  result,           \* the records returned to the caller
  raised            \* an exception left the public operation

vars == <<pc, op, request, ceiling, params, calls, listings, shops, model,
          message_content, first_pass, trace, passes, selected, result, raised>>

(* ---------------------------- bounds ----------------------------------- *)

\* longest model response, in tokens, enumerated exhaustively (level 1)
MaxLen == 4
\* longest JSON array of a level-1 model response enumerated beyond MaxLen
MaxElems == 3
\* longest reranker response, in tokens, enumerated exhaustively
MaxRerankLen == 2
\* longest array of one repeated shop the reranker response may hold
MaxSel == 6
\* longest listings result made of one repeated shop
MaxShops == 6
\* longest listings result, and longest reranker array, mixing every kind of shop
MaxMixed == 2

(* ---------------------------- JSON values ------------------------------ *)

Str(s) == [t |-> "str", v |-> s]

Null == [t |-> "null"]

IntVal(n) == [t |-> "int", v |-> n]

\* the text of a model response, as tokens
Text(toks) == [t |-> "text", v |-> toks]

List(s) == [t |-> "list", v |-> s]

Obj(f) == [t |-> "obj", v |-> f]

\* dict.get(key, default)
Get(obj, key, default) == IF key \in DOMAIN obj.v THEN obj.v[key] ELSE default

\* Python truthiness slice seq[:n]
Take(s, n) == IF Len(s) <= n THEN s ELSE SubSeq(s, 1, n)

\* an outcome of a call: a value, or an exception
Ok(v) == [ok |-> TRUE, v |-> v]

Raise == [ok |-> FALSE, v |-> <<>>]

(* ---------------------------- tokens ----------------------------------- *)

\* restaurant objects the model may write
R1 == Obj([name |-> Str("n1"), address |-> Str("a1"), genre |-> Str("g1"), budget |-> Str("b1")])

R2 == Obj([name |-> Str("n2"), address |-> Str("a2"), genre |-> Str("g2"), budget |-> Str("b2")])

\* an object without the address, genre and budget keys
M == Obj([name |-> Str("n3")])

\* shops of the listings service
ShopA == Obj([name |-> Str("sa"), address |-> Str("aa"), genre |-> Obj([name |-> Str("ga")]), budget |-> Obj([name |-> Str("ba")])])

ShopB == Obj([name |-> Null, address |-> Str("ab"), genre |-> Obj([name |-> Str("gb")]), budget |-> Str("bb")])

ShopC == Obj([name |-> Str("sc"), address |-> Str("ac")])

ShopD == Obj([name |-> Str("sd"), address |-> Str("ad"), genre |-> Null, budget |-> Str("bd")])

ShopPool == {ShopA, ShopB, ShopC, ShopD}

\* tokens that are a complete JSON value written with double quotes
JsonToks == {"R1", "R2", "M", "S", "A", "B"}

TokJson(tok) ==
  CASE tok = "R1" -> R1
    [] tok = "R2" -> R2
    [] tok = "M" -> M
    [] tok = "S" -> Str("s")
    [] tok = "A" -> ShopA
    [] tok = "B" -> ShopB

\* the tokens of a level-1 model response
Level1Toks == {"[", "]", ",", "R1", "R2", "M", "Q1", "S", "X"}

\* the tokens of a reranker model response
RerankToks == {"[", "]", ",", "A", "B", "QA", "S", "X"}

(* ---------------------------- json.loads ------------------------------- *)

RECURSIVE ParseValue(_, _), ParseElems(_, _, _)

ParseFail == [ok |-> FALSE, val |-> Null, next |-> 0]

\* one JSON value starting at token i
ParseValue(toks, i) ==
  IF i > Len(toks) THEN ParseFail
  ELSE IF toks[i] \in JsonToks THEN [ok |-> TRUE, val |-> TokJson(toks[i]), next |-> i + 1]
  ELSE IF toks[i] = "["
    THEN IF i + 1 <= Len(toks) /\ toks[i + 1] = "]"
           THEN [ok |-> TRUE, val |-> List(<<>>), next |-> i + 2]
           ELSE ParseElems(toks, i + 1, <<>>)
  ELSE ParseFail

\* the elements of an array after its "[", up to and including its "]"
ParseElems(toks, i, acc) ==
  LET r == ParseValue(toks, i) IN
  IF ~r.ok \/ r.next > Len(toks) THEN ParseFail
  ELSE IF toks[r.next] = "," THEN ParseElems(toks, r.next + 1, Append(acc, r.val))
  ELSE IF toks[r.next] = "]" THEN [ok |-> TRUE, val |-> List(Append(acc, r.val)), next |-> r.next + 1]
  ELSE ParseFail

\* json.loads: the whole text is exactly one value, else JSONDecodeError
json_loads(toks) ==
  LET r == ParseValue(toks, 1) IN
  IF r.ok /\ r.next = Len(toks) + 1 THEN Ok(r.val) ELSE Raise

(* ---------------------------- text helpers ----------------------------- *)

\* str.find('['): index of the first "[", 0 when there is none
find(toks, c) ==
  IF \E i \in 1..Len(toks) : toks[i] = c
    THEN CHOOSE i \in 1..Len(toks) : toks[i] = c /\ \A j \in 1..(i - 1) : toks[j] # c
    ELSE 0

\* str.rfind(']'): index of the last "]", 0 when there is none
rfind(toks, c) ==
  IF \E i \in 1..Len(toks) : toks[i] = c
    THEN CHOOSE i \in 1..Len(toks) : toks[i] = c /\ \A j \in (i + 1)..Len(toks) : toks[j] # c
    ELSE 0

\* the objects json.loads accepts among the matches of \{.*?\} inside one token
ScanTok(tok) ==
  CASE tok \in {"R1", "R2", "M"} -> <<TokJson(tok)>>
    [] tok = "A" -> <<Obj([name |-> Str("ba")])>>
    [] OTHER -> <<>>

RECURSIVE ScanObjects(_)
\* re.findall(r'\{.*?\}') followed by json.loads of every match, failures skipped
ScanObjects(toks) ==
  IF toks = <<>> THEN <<>> ELSE ScanTok(Head(toks)) \o ScanObjects(Tail(toks))

FixTok(tok) ==
  CASE tok = "Q1" -> "R1"
    [] tok = "QA" -> "A"
    [] OTHER -> tok

\* single-quoted keys and values rewritten with double quotes
fix_json_single_quotes(toks) == [i \in 1..Len(toks) |-> FixTok(toks[i])]

(* ---------------------------- extraction ------------------------------- *)

\* the bracket-scoped substring exists: start != -1 and end != -1 and end > start
HasArray(toks) == find(toks, "[") # 0 /\ rfind(toks, "]") # 0 /\ rfind(toks, "]") > find(toks, "[")

array_str(toks) == SubSeq(toks, find(toks, "["), rfind(toks, "]"))

\* variant: a decoded array without any restaurant object falls through to the scan
safe_parse_json_until_valid(toks) ==
  IF /\ HasArray(toks)
     /\ json_loads(array_str(toks)).ok
     /\ \E i \in 1..Len(json_loads(array_str(toks)).v.v) :
          LET x == json_loads(array_str(toks)).v.v[i] IN
          x.t = "obj" /\ \A k \in {"name", "address", "genre", "budget"} : k \in DOMAIN x.v
    THEN [val |-> json_loads(array_str(toks)).v, trace |-> <<"bracket">>]
    ELSE [val |-> List(ScanObjects(toks)),
          trace |-> IF HasArray(toks) THEN <<"bracket", "scan">> ELSE <<"scan">>]

\* the parsed value and the strategies run, in order
safe_parse_json(toks) ==
  IF HasArray(toks) /\ json_loads(array_str(toks)).ok
    THEN [val |-> json_loads(array_str(toks)).v, trace |-> <<"bracket">>]
    ELSE [val |-> List(ScanObjects(toks)),
          trace |-> IF HasArray(toks) THEN <<"bracket", "scan">> ELSE <<"scan">>]

RequiredKeys == {"name", "address", "genre", "budget"}

\* RestaurantModel(**item) raises no ValidationError
Validates(item) == \A k \in RequiredKeys : k \in DOMAIN item.v /\ item.v[k].t = "str"

Restaurant(n, a, g, b) == [name |-> n, address |-> a, genre |-> g, budget |-> b]

RECURSIVE ValidRestaurantsPrepended(_)
\* variant: every validated record is put in front of the earlier ones
ValidRestaurantsPrepended(items) ==
  IF items = <<>> THEN <<>>
  ELSE LET item == Head(items) IN
       ValidRestaurantsPrepended(Tail(items)) \o
       (IF Validates(item)
          THEN <<Restaurant(item.v.name, item.v.address, item.v.genre, item.v.budget)>>
          ELSE <<>>)

RECURSIVE ValidRestaurants(_)
\* the loop of lines 84-96 on items that are all mappings
ValidRestaurants(items) ==
  IF items = <<>> THEN <<>>
  ELSE LET item == Head(items) IN
       (IF Validates(item)
          THEN <<Restaurant(item.v.name, item.v.address, item.v.genre, item.v.budget)>>
          ELSE <<>>) \o ValidRestaurants(Tail(items))

\* the validated records; RestaurantModel(**item) raises TypeError on an item that is no mapping
parse_restaurants_to_dataclass(json_data) ==
  LET items == IF json_data.t = "obj" THEN <<json_data>>
               ELSE IF json_data.t = "list" THEN json_data.v ELSE <<>> IN
  IF \E i \in 1..Len(items) : items[i].t # "obj" THEN Raise
  ELSE Ok(ValidRestaurants(items))

\* lines 158-159: safe_parse_json, then parse_restaurants_to_dataclass
Extract(toks) == parse_restaurants_to_dataclass(safe_parse_json(toks).val)

(* ---------------------------- level 1 ---------------------------------- *)

\* variant: a budget of 0 counts as given
HasBudgetOrZero(budget) == budget.t = "int" /\ budget.v >= 0

\* Python truth of `budget and budget > 0`
HasBudget(budget) == budget.t = "int" /\ budget.v # 0 /\ budget.v > 0

Fallback1(location, genre, budget) ==
  Restaurant(Str("Sample Shokudo"),
             Str(location \o " Sample-cho 1-2-3"),
             Str(genre),
             IF HasBudget(budget) THEN Str(ToString(budget.v) \o " yen or less") ELSE Str("unknown"))

\* the try block of level 1 once the model has answered: its outcome (a record
\* list, or an exception) and the number of safe_parse_json passes completed
Level1Try(content) ==
  IF content.t # "text" THEN [out |-> Raise, passes |-> 0]
  ELSE LET first == Extract(content.v) IN
       IF first.ok /\ first.v = <<>>
         THEN LET second == Extract(fix_json_single_quotes(content.v)) IN
              [out |-> IF second.ok /\ second.v = <<>> THEN Raise ELSE second, passes |-> 2]
         ELSE [out |-> first, passes |-> 1]

\* the value level 1 returns: the try block's records, or the except block's fallback
generate_restaurant_recommendations_level1(outcome, location, genre, budget) ==
  IF outcome.ok THEN Ok(outcome.v) ELSE Ok(<<Fallback1(location, genre, budget)>>)

(* ---------------------------- level 2 ---------------------------------- *)

budget_code(outing_genre) == IF outing_genre = "lunch" THEN "B001,B002" ELSE "B008,B003"

\* variant: the lunch filter is always set
lunch_param_always(outing_genre) == "1"

\* "1", or "" for None
lunch_param(outing_genre) == IF outing_genre = "lunch" THEN "1" ELSE ""

coords(office) ==
  CASE office = "Shibuya Scramble Square" -> [lat |-> "35.65839321", lng |-> "139.70230429"]
    [] office = "abema towers" -> [lat |-> "35.661", lng |-> "139.710"]
    [] OTHER -> [lat |-> "35.65839321", lng |-> "139.70230429"]

range_val(distance) ==
  CASE distance = 300 -> 1
    [] distance = 500 -> 2
    [] distance = 1000 -> 3
    [] distance = 2000 -> 4
    [] distance = 3000 -> 5
    [] OTHER -> 3

HOTPEPPER_API_KEY == "key"

\* the query of the listings request; the key "lunch" is present only when lunch_param is set
Params(office, outing_genre, genre, distance) ==
  LET base == [lat |-> coords(office).lat, lng |-> coords(office).lng,
               range |-> range_val(distance), format |-> "json",
               key |-> HOTPEPPER_API_KEY, genre |-> genre[1],
               budget |-> budget_code(outing_genre)] IN
  IF lunch_param(outing_genre) # "" THEN base @@ ("lunch" :> lunch_param(outing_genre)) ELSE base

\* the amount of the sub-header of main
Ceiling(outing_genre) == IF outing_genre = "lunch" THEN 2000 ELSE 5000

\* shops[:5]; slicing None raises TypeError
Slice5(shops_) == IF shops_.t = "list" THEN Ok(List(Take(shops_.v, 5))) ELSE Raise

json_str(toks) == IF HasArray(toks) THEN array_str(toks) ELSE toks

\* json.loads(json_str), retried once on the quote-repaired text
RerankParse(toks) ==
  IF json_loads(json_str(toks)).ok THEN json_loads(json_str(toks))
  ELSE json_loads(fix_json_single_quotes(json_str(toks)))

\* resp: the outcome of the model call (an exception, or the content)
select_top_restaurants(shops_, resp) ==
  IF ~resp.ok \/ resp.v.t # "text" THEN Slice5(shops_)
  ELSE LET sel == RerankParse(resp.v.v) IN
       IF sel.ok /\ sel.v.t = "list" THEN Ok(sel.v) ELSE Slice5(shops_)

\* the loop body raises no AttributeError on this shop
ShopMaps(shop) ==
  IF shop.t # "obj" THEN FALSE ELSE Get(shop, "genre", Obj(<<>>)).t = "obj"

MapShop(shop, genre_name) ==
  LET shop_budget_raw == Get(shop, "budget", Str("unknown")) IN
  Restaurant(Get(shop, "name", Str("unknown")),
             Get(shop, "address", Str("unknown")),
             Get(Get(shop, "genre", Obj(<<>>)), "name", Str(genre_name)),
             IF shop_budget_raw.t = "obj" THEN Get(shop_budget_raw, "name", Str("unknown"))
             ELSE shop_budget_raw)

\* lines 288-312: the records mapped from the reranker's shops, or an exception
Level2Try(top, genre_name) ==
  IF ~top.ok THEN Raise
  ELSE IF \E i \in 1..Len(top.v.v) : ~ShopMaps(top.v.v[i]) THEN Raise
  ELSE IF top.v.v = <<>> THEN Raise
  ELSE Ok([i \in 1..Len(top.v.v) |-> MapShop(top.v.v[i], genre_name)])

Fallback2(office, genre_name, budget_code_) ==
  Restaurant(Str("Sample Shokudo"),
             Str(office \o " shuhen Sample-cho 1-2-3"),
             Str(genre_name),
             Str(budget_code_))

\* variant: no except block, the exception leaves the operation
generate_restaurant_recommendations_level2_unhandled(outcome, office, genre_name, budget_code_) ==
  IF outcome.ok THEN Ok(outcome.v) ELSE Raise

\* the value level 2 returns: the try block's records, or the except block's fallback
generate_restaurant_recommendations_level2(outcome, office, genre_name, budget_code_) ==
  IF outcome.ok THEN Ok(outcome.v) ELSE Ok(<<Fallback2(office, genre_name, budget_code_)>>)

\* data.get("results", {}).get("shop", []); .get on a value that is no mapping raises
ShopsOf(data) ==
  IF data.t # "obj" THEN Raise
  ELSE IF Get(data, "results", Obj(<<>>)).t # "obj" THEN Raise
  ELSE Ok(Get(Get(data, "results", Obj(<<>>)), "shop", List(<<>>)))

(* ---------------------------- inputs ----------------------------------- *)

Seqs(S, n) == UNION {[1..k -> S] : k \in 0..n}

RECURSIVE Join(_)
\* the elements separated by commas
Join(elems) ==
  IF Len(elems) <= 1 THEN elems ELSE <<Head(elems), ",">> \o Join(Tail(elems))

ArrayText(elems) == <<"[">> \o Join(elems) \o <<"]">>

Locations == {"Shibuya", "Osaka"}

Level1Genres == {"Chinese", "Italian"}

Budgets == {Null, IntVal(0), IntVal(500)}

Offices == {"abema towers", "elsewhere"}

OutingGenres == {"lunch", "drinks"}

GenreOptions == {<<"G001", "Izakaya">>, <<"G013", "Ramen">>}

Distances == {500, 750}

Level1Texts ==
  Seqs(Level1Toks, MaxLen)
    \cup {ArrayText(e) : e \in Seqs({"R1", "R2", "M", "S", "Q1"}, MaxElems)}

Level1Contents == {Null} \cup {Text(toks) : toks \in Level1Texts}

RerankTexts ==
  Seqs(RerankToks, MaxRerankLen)
    \cup {ArrayText(e) : e \in Seqs({"A", "B", "QA", "S"}, MaxMixed)}
    \cup {ArrayText([i \in 1..n |-> "A"]) : n \in 0..MaxSel}

RerankContents == {Null} \cup {Text(toks) : toks \in RerankTexts}

ShopLists ==
  Seqs(ShopPool, MaxMixed) \cup {[i \in 1..n |-> ShopA] : n \in 0..MaxShops}

ListingsBodies ==
  {Obj([results |-> Obj([shop |-> List(s)])]) : s \in ShopLists}
    \cup {Obj(<<>>), Obj([results |-> Obj(<<>>)]), Obj([results |-> Obj([shop |-> Null])]),
          Obj([results |-> Null]), List(<<>>)}

(* ---------------------------- actions ---------------------------------- *)

Init ==
  /\ pc = "idle"
  /\ op = "none"
  /\ request = <<>>
  /\ ceiling = 0
  /\ params = <<>>
  /\ calls = <<>>
  /\ listings = "none"
  /\ shops = Null
  /\ model = "none"
  /\ message_content = Null
  /\ first_pass = Raise
  /\ trace = <<>>
  /\ passes = 0
  /\ selected = Raise
  /\ result = <<>>
  /\ raised = FALSE

\* main, level-1 branch, up to the model call of level 1
SearchLevel1 ==
  /\ pc = "idle"
  /\ pc' = "l1_model"
  /\ op' = "level1"
  /\ \E location \in Locations, genre \in Level1Genres, budget \in Budgets :
       request' = [location |-> location, genre |-> genre, budget |-> budget]
  /\ calls' = Append(calls, "model")
  /\ UNCHANGED <<ceiling, params, listings, shops, model, message_content,
                 first_pass, trace, passes, selected, result, raised>>

\* level 1 ends with out, the outcome of its try block
Level1Return(out) ==
  LET ret == generate_restaurant_recommendations_level1(out, request.location, request.genre, request.budget) IN
  /\ pc' = "done"
  /\ result' = (IF ret.ok THEN ret.v ELSE <<>>)
  /\ raised' = ~ret.ok

\* client.chat.completions.create raises
Level1ModelRaises ==
  /\ pc = "l1_model"
  /\ model' = "raised"
  /\ Level1Return(Raise)
  /\ UNCHANGED <<op, request, ceiling, params, calls, listings, shops,
                 message_content, first_pass, trace, passes, selected>>

\* the model answers; level 1 extracts, repairs, and returns
Level1ModelReturns ==
  /\ pc = "l1_model"
  /\ model' = "returned"
  /\ \E content \in Level1Contents :
       /\ message_content' = content
       /\ first_pass' = (IF content.t = "text" THEN Extract(content.v) ELSE Raise)
       /\ trace' = (IF content.t = "text" THEN safe_parse_json(content.v).trace ELSE <<>>)
       /\ passes' = Level1Try(content).passes
       /\ Level1Return(Level1Try(content).out)
  /\ UNCHANGED <<op, request, ceiling, params, calls, listings, shops, selected>>

\* main, level-2 branch, up to the listings call of level 2
SearchLevel2 ==
  /\ pc = "idle"
  /\ pc' = "l2_listings"
  /\ op' = "level2"
  /\ \E office \in Offices, outing_genre \in OutingGenres, genre \in GenreOptions, distance \in Distances :
       /\ request' = [office |-> office, outing_genre |-> outing_genre, genre |-> genre, distance |-> distance]
       /\ ceiling' = Ceiling(outing_genre)
       /\ params' = Params(office, outing_genre, genre, distance)
  /\ calls' = Append(calls, "listings")
  /\ UNCHANGED <<listings, shops, model, message_content, first_pass, trace,
                 passes, selected, result, raised>>

\* level 2 ends with out, the outcome of its try block
Level2Return(out) ==
  LET ret == generate_restaurant_recommendations_level2(out, request.office, request.genre[2], budget_code(request.outing_genre)) IN
  /\ pc' = "done"
  /\ result' = (IF ret.ok THEN ret.v ELSE <<>>)
  /\ raised' = ~ret.ok

\* variant: the reranker is asked even though the listings call failed
ListingsFailsThenReranks ==
  /\ pc = "l2_listings"
  /\ listings' \in {"error", "bad_status", "not_json"}
  /\ calls' = Append(calls, "model")
  /\ shops' = List(<<>>)
  /\ pc' = "l2_model"
  /\ UNCHANGED <<op, request, ceiling, params, model, message_content,
                 first_pass, trace, passes, selected, result, raised>>

\* the listings call ends in an exception: requests.get raises ("error"),
\* raise_for_status raises ("bad_status"), response.json raises ("not_json")
ListingsFails ==
  /\ pc = "l2_listings"
  /\ listings' \in {"error", "bad_status", "not_json"}
  /\ Level2Return(Raise)
  /\ UNCHANGED <<op, request, ceiling, params, calls, shops, model,
                 message_content, first_pass, trace, passes, selected>>

\* the body has a shape on which reading the shops raises
ListingsMalformed ==
  /\ pc = "l2_listings"
  /\ \E data \in ListingsBodies : ~ShopsOf(data).ok
  /\ listings' = "malformed"
  /\ Level2Return(Raise)
  /\ UNCHANGED <<op, request, ceiling, params, calls, shops, model,
                 message_content, first_pass, trace, passes, selected>>

\* the shops are read and select_top_restaurants issues its model call
ListingsReturns ==
  /\ pc = "l2_listings"
  /\ listings' = "ok"
  /\ \E data \in ListingsBodies : ShopsOf(data).ok /\ shops' = ShopsOf(data).v
  /\ calls' = Append(calls, "model")
  /\ pc' = "l2_model"
  /\ UNCHANGED <<op, request, ceiling, params, model, message_content,
                 first_pass, trace, passes, selected, result, raised>>

\* the reranker's model call raises
RerankModelRaises ==
  /\ pc = "l2_model"
  /\ model' = "raised"
  /\ selected' = select_top_restaurants(shops, Raise)
  /\ Level2Return(Level2Try(select_top_restaurants(shops, Raise), request.genre[2]))
  /\ UNCHANGED <<op, request, ceiling, params, calls, listings, shops,
                 message_content, first_pass, trace, passes>>

\* the reranker's model call answers; level 2 maps the selection and returns
RerankModelReturns ==
  /\ pc = "l2_model"
  /\ model' = "returned"
  /\ \E content \in RerankContents :
       /\ message_content' = content
       /\ selected' = select_top_restaurants(shops, Ok(content))
       /\ Level2Return(Level2Try(select_top_restaurants(shops, Ok(content)), request.genre[2]))
  /\ UNCHANGED <<op, request, ceiling, params, calls, listings, shops,
                 first_pass, trace, passes>>

\* main shows the records; the next search starts from nothing
Return ==
  /\ pc = "done"
  /\ pc' = "idle"
  /\ op' = "none"
  /\ request' = <<>>
  /\ ceiling' = 0
  /\ params' = <<>>
  /\ calls' = <<>>
  /\ listings' = "none"
  /\ shops' = Null
  /\ model' = "none"
  /\ message_content' = Null
  /\ first_pass' = Raise
  /\ trace' = <<>>
  /\ passes' = 0
  /\ selected' = Raise
  /\ result' = <<>>
  /\ raised' = FALSE

Next ==
  \/ SearchLevel1
  \/ Level1ModelRaises
  \/ Level1ModelReturns
  \/ SearchLevel2
  \/ ListingsFails
  \/ ListingsMalformed
  \/ ListingsReturns
  \/ RerankModelRaises
  \/ RerankModelReturns
  \/ Return

Spec == Init /\ [][Next]_vars

(* ---------------------------- claims ----------------------------------- *)

Fields == {"name", "address", "genre", "budget"}

\* the fallback record of level 1 for the current request, written out
ExpectedFallback1 ==
  [name |-> Str("Sample Shokudo"),
   address |-> Str(request.location \o " Sample-cho 1-2-3"),
   genre |-> Str(request.genre),
   budget |-> IF request.budget.t = "int" /\ request.budget.v > 0
                THEN Str(ToString(request.budget.v) \o " yen or less")
                ELSE Str("unknown")]

\* the fallback record of level 2 for the current request, written out
ExpectedFallback2 ==
  [name |-> Str("Sample Shokudo"),
   address |-> Str(request.office \o " shuhen Sample-cho 1-2-3"),
   genre |-> Str(request.genre[2]),
   budget |-> Str(IF request.outing_genre = "lunch" THEN "B001,B002" ELSE "B008,B003")]

\* the record a restaurant token of the model output stands for
RecordOf(tok) ==
  IF tok = "R1" THEN [name |-> Str("n1"), address |-> Str("a1"), genre |-> Str("g1"), budget |-> Str("b1")]
  ELSE [name |-> Str("n2"), address |-> Str("a2"), genre |-> Str("g2"), budget |-> Str("b2")]

\* level 1 has returned after the model answered with text
Level1Answered ==
  pc = "done" /\ op = "level1" /\ model = "returned" /\ message_content.t = "text"

\* C1: whatever the collaborators do, a finished public operation has raised
\* no exception and has returned at least one record.
C1_NonEmptyNeverRaises == pc = "done" => (~raised /\ Len(result) >= 1)

\* level 2 returns its fallback after the model call failed and slicing the shops (null) raised too
C1_Witness ==
  /\ pc = "done" /\ op = "level2" /\ listings = "ok" /\ shops = Null /\ model = "raised"
  /\ result = <<ExpectedFallback2>>

\* C2: every record returned by either operation has its four fields
\* populated with text.
C2_AllFieldsText ==
  pc = "done" => \A i \in 1..Len(result) : \A k \in Fields : result[i][k].t = "str"

\* C3: when the listings call succeeds with zero shops, no model call is made
\* in the request and level 2 returns exactly the fallback record.
C3_NoRerankOnZeroShops ==
  (op = "level2" /\ listings = "ok" /\ shops = List(<<>>)) =>
    /\ \A i \in 1..Len(calls) : calls[i] # "model"
    /\ pc = "done" => result = <<ExpectedFallback2>>

\* C4: select_top_restaurants returns at most 5 candidates, so level 2
\* returns at most 5 records.
C4_AtMostFive ==
  (pc = "done" /\ op = "level2") =>
    /\ selected.ok => Len(selected.v.v) <= 5
    /\ Len(result) <= 5

\* C5: when the parsed model output is a list holding at least one valid
\* restaurant object and at least one malformed element, level 1 returns
\* exactly the valid records, in order, and not the fallback.
C5_MalformedElementKeepsBatch ==
  Level1Answered =>
    LET parsed == safe_parse_json(message_content.v).val
        IsValid(x) == x.t = "obj" /\ \A k \in Fields : k \in DOMAIN x.v /\ x.v[k].t = "str"
        valid == SelectSeq(parsed.v, IsValid)
    IN (/\ parsed.t = "list"
        /\ \E i \in 1..Len(parsed.v) : IsValid(parsed.v[i])
        /\ \E i \in 1..Len(parsed.v) : ~IsValid(parsed.v[i]))
       => result = [i \in 1..Len(valid) |-> [k \in Fields |-> valid[i].v[k]]]

\* C6 as stated: for every well-formed double-quoted JSON array, extraction
\* returns one record per array element.
C6_OneRecordPerElement ==
  Level1Answered =>
    \A e \in Seqs({"R1", "R2", "M", "S"}, MaxElems) :
      message_content.v = ArrayText(e) => (first_pass.ok /\ Len(first_pass.v) = Len(e))

\* C6 amended: for every well-formed double-quoted JSON array whose elements
\* are all objects with the four required keys and text values, extraction
\* returns one record per element, in input order, with the values unchanged.
C6_RestaurantArrayExtracted ==
  Level1Answered =>
    \A e \in Seqs({"R1", "R2"}, MaxElems) :
      message_content.v = ArrayText(e) => first_pass = Ok([i \in 1..Len(e) |-> RecordOf(e[i])])

\* an array of two different restaurants was extracted in its order
C6_Witness ==
  /\ Level1Answered
  /\ message_content.v = <<"[", "R2", ",", "R1", "]">>
  /\ first_pass = Ok(<<RecordOf("R2"), RecordOf("R1")>>)
  /\ result = first_pass.v

\* C7: when the model call fails or extraction yields no valid record, level 1
\* returns exactly one fallback record made from the request parameters alone.
C7_FallbackFromRequest ==
  (pc = "done" /\ op = "level1" /\ (model = "raised" \/ ~Level1Try(message_content).out.ok))
    => result = <<ExpectedFallback1>>

\* prose without JSON came back for a request with a budget, and the fallback carries that budget
C7_Witness ==
  /\ Level1Answered
  /\ message_content.v = <<"X">>
  /\ request.budget = IntVal(500)
  /\ result = <<ExpectedFallback1>>
  /\ result[1].budget = Str("500 yen or less")

\* C8: lunch gives the ceiling 2000, the budget codes B001,B002 and the lunch
\* filter; drinks gives 5000, B008,B003 and no lunch key in the parameters.
C8_PurposeDecidesParams ==
  op = "level2" =>
    /\ request.outing_genre = "lunch" =>
         (ceiling = 2000 /\ "lunch" \in DOMAIN params /\ params["lunch"] = "1" /\ params["budget"] = "B001,B002")
    /\ request.outing_genre = "drinks" =>
         (ceiling = 5000 /\ "lunch" \notin DOMAIN params /\ params["budget"] = "B008,B003")
    /\ ("lunch" \in DOMAIN params) <=> (request.outing_genre = "lunch")

\* a drinks request is waiting for the listings service without the lunch key
C8_Witness ==
  /\ pc = "l2_listings" /\ request.outing_genre = "drinks"
  /\ "lunch" \notin DOMAIN params /\ ceiling = 5000

C10_CallDiscipline ==
  /\ Len(calls) <= 2
  /\ op = "level1" => calls = <<"model">>
  /\ op = "level2" => (calls = <<"listings">> \/ (calls = <<"listings", "model">> /\ listings = "ok"))
  /\ listings \in {"error", "bad_status", "not_json", "malformed"} => calls = <<"listings">>

\* level 2 finished after a listings call and a failed model call
C10_Witness ==
  pc = "done" /\ calls = <<"listings", "model">> /\ model = "raised" /\ Len(result) >= 1

====
